---- MODULE Spec2Model ----
(***************************************************************************)
(* wrds2postgres: a model of the per-table synchronisation of a SAS table  *)
(* on the WRDS server into a PostgreSQL table (wrds2postgres.py).          *)
(*                                                                         *)
(* Text that the code inspects character by character (SAS formats,        *)
(* column names) is a tuple of one-character strings; text that the code   *)
(* only compares or concatenates (the "last modified" signal, the table    *)
(* comment) is a string.                                                   *)
(***************************************************************************)
EXTENDS Integers, Sequences, FiniteSets, TLC

VARIABLES
    \* ---- the destination store (PostgreSQL), one destination table
    tableExists,    \* whether schema.alt_table_name exists
    tableCols,      \* its columns, in order: <<[name, type], ...>>
    tableRows,      \* its committed rows
    tableComment,   \* its comment (obj_description), NullComment when none
    tableOwner,     \* TRUE when ALTER TABLE ... OWNER TO <schema> was applied to it
    tableGrant,     \* TRUE when SELECT was granted to <schema>_access on it
    roles,          \* the roles that exist (pg_roles)
    \* ---- the remote table
    remoteCols,     \* what PROC CONTENTS describes: a sequence of rows
    \* ---- the arguments of the running wrds_update call
    wrds_id,        \* TRUE when a WRDS id is given
    fpath,          \* TRUE when a local path is given
    force,
    \* ---- the locals of the running wrds_update / wrds_to_pg call
    pc,             \* the statement the call is at
    comment,        \* wrds_update's comment
    modified,       \* wrds_update's modified
    df,             \* get_table_sql's data frame
    make_table_data,\* get_table_sql's result: [sql, datetimes]
    stream,         \* the rows of the export stream p
    txRows,         \* rows copied in the open, uncommitted transaction
    sent,           \* how many rows copy_expert has read from p in this call
    fixIdx,         \* position of wrds_to_pg's loop over datetimes
    failedAt,       \* the stage at which the call raised, "" when it did not
    \* ---- resources held
    openChannels,   \* execution channels opened by the call and not closed
    openConns,      \* destination connections opened by the call and not closed
    \* ---- history
    trace,          \* the stages the running call has entered, in order
    last,           \* how the previous call ended
    \* ---- code_row on its own
    row,            \* a PROC CONTENTS row
    postgres_type,  \* code_row(row), "none" before it is applied
    ret_line        \* the source line code_row returned at, 0 before

vars == <<tableExists, tableCols, tableRows, tableComment, tableOwner, tableGrant,
          roles, remoteCols, wrds_id, fpath, force, pc, comment, modified, df,
          make_table_data, stream, txRows, sent, fixIdx, failedAt, openChannels,
          openConns, trace, last, row, postgres_type, ret_line>>

storeVars == <<tableExists, tableCols, tableRows, tableComment, tableOwner,
               tableGrant, roles>>
argVars   == <<wrds_id, fpath, force>>
typeVars  == <<row, postgres_type, ret_line>>

----------------------------------------------------------------------------
(* Bounds *)

\* longest column description of the remote table
MaxCols == 2
\* most rows an export stream carries
MaxRows == 2

----------------------------------------------------------------------------
(* Text helpers *)

LowerChar(c) ==
    CASE c = "A" -> "a" [] c = "B" -> "b" [] c = "C" -> "c" [] c = "D" -> "d"
      [] c = "E" -> "e" [] c = "F" -> "f" [] c = "G" -> "g" [] c = "H" -> "h"
      [] c = "I" -> "i" [] c = "J" -> "j" [] c = "K" -> "k" [] c = "L" -> "l"
      [] c = "M" -> "m" [] c = "N" -> "n" [] c = "O" -> "o" [] c = "P" -> "p"
      [] c = "Q" -> "q" [] c = "R" -> "r" [] c = "S" -> "s" [] c = "T" -> "t"
      [] c = "U" -> "u" [] c = "V" -> "v" [] c = "W" -> "w" [] c = "X" -> "x"
      [] c = "Y" -> "y" [] c = "Z" -> "z" [] OTHER -> c

\* str.lower()
Lower(s) == [i \in 1..Len(s) |-> LowerChar(s[i])]

\* re.search(pat, s, re.I) for a pattern without metacharacters
SearchI(pat, s) ==
    \E i \in 1..(Len(s) - Len(pat) + 1) :
        Lower(SubSeq(s, i, i + Len(pat) - 1)) = Lower(pat)

\* pd.isnull(format_): an empty CSV field is read as NaN
IsNull(f) == f = <<>>

F_DATETIME == <<"d","a","t","e","t","i","m","e">>
F_TIME     == <<"t","i","m","e">>
F_DATE     == <<"d","a","t","e">>
F_YYMMDD   == <<"y","y","m","m","d","d">>
F_MMDDYY   == <<"m","m","d","d","y","y">>
F_TIME8    == <<"T","I","M","E","8",".">>
F_TOD      == <<"T","O","D">>
F_BEST     == <<"B","E","S","T">>

----------------------------------------------------------------------------
(* code_row *)

DestinationTypes == {"text", "timestamp", "time", "date", "float8", "int8"}

\* the source line of the return statement code_row reaches for a row
code_row_line(r) ==
    LET format_  == r.format
        formatd  == r.formatd
        formatl  == r.formatl
        col_type == r.type
        inFormat ==
            IF ~IsNull(format_)
            THEN IF SearchI(F_DATETIME, format_) THEN 66
                 ELSE IF format_ = F_TIME8 \/ SearchI(F_TIME, format_) \/ format_ = F_TOD
                      THEN 68
                 ELSE IF SearchI(F_DATE, format_) \/ SearchI(F_YYMMDD, format_)
                         \/ SearchI(F_MMDDYY, format_)
                      THEN 70
                 ELSE 0
            ELSE 0
    IN  IF col_type = 2 THEN 62
        ELSE IF inFormat # 0 THEN inFormat
        ELSE IF format_ = F_BEST THEN 73
        ELSE IF formatd # 0 THEN 75
        ELSE IF formatd = 0 /\ formatl # 0 THEN 77
        ELSE IF formatd = 0 /\ formatl = 0 THEN 79
        ELSE 81

\* the value each return statement of code_row returns
ReturnedAt(line) ==
    CASE line = 62 -> "text"
      [] line = 66 -> "timestamp"
      [] line = 68 -> "time"
      [] line = 70 -> "date"
      [] line = 73 -> "float8"
      [] line = 75 -> "float8"
      [] line = 77 -> "int8"
      [] line = 79 -> "float8"
      [] line = 81 -> "text"

\* code_row with the time test placed before the datetime test
code_row_time_first(r) ==
    IF r.type # 2 /\ ~IsNull(r.format) /\ SearchI(F_TIME, r.format)
    THEN "time"
    ELSE ReturnedAt(code_row_line(r))

code_row(r) == ReturnedAt(code_row_line(r))

----------------------------------------------------------------------------
(* The remote table *)

Col(n, f, d, l, t) == [name |-> n, format |-> f, formatd |-> d, formatl |-> l, type |-> t]

\* PROC CONTENTS rows of the columns a remote table may have
ColPool ==
    { Col(<<"I","d">>, <<>>, 0, 8, 1),
      Col(<<"T","s">>, <<"D","A","T","E","T","I","M","E","2","0",".">>, 0, 20, 1),
      Col(<<"U","p","d">>, <<"d","a","t","e","t","i","m","e">>, 0, 0, 1),
      Col(<<"N","m">>, <<"$","C","H","A","R","2","0",".">>, 0, 20, 2) }

\* the descriptions PROC CONTENTS can return: 1..MaxCols columns, distinct names
ColLists ==
    { s \in UNION { [1..n -> ColPool] : n \in 1..MaxCols } :
        \A i, j \in 1..Len(s) : i # j => s[i].name # s[j].name }

\* the streams PROC EXPORT can return: rows 1..n
Streams == { [i \in 1..n |-> i] : n \in 0..MaxRows }

\* a line of PROC CONTENTS' listing, as get_modified_str reads it
\*   kind "lastmod":    matches ^Last Modified; text is what the regex captures
\*   kind "protection": contains Protection
\*   kind "other":      anything else; text is the stripped line
Line(k, t) == [kind |-> k, text |-> t]

\* the listings the remote side returns to get_modified_str
RemoteOutputs ==
    { << >>,
      << Line("other", "The CONTENTS Procedure"),
         Line("lastmod", "07/12/2019 10:15:00"),
         Line("protection", "Protection") >>,
      << Line("lastmod", "08/01/2020 09:00:00"),
         Line("other", "PM") >> }

----------------------------------------------------------------------------
(* get_modified_str: the loop over the lines of the listing *)

RECURSIVE ModifiedLoop(_, _, _, _)
ModifiedLoop(contents, i, mod, next_row) ==
    IF i > Len(contents) THEN mod
    ELSE LET line == contents[i]
             mod1 == IF next_row /\ line.kind # "protection"
                     THEN mod \o " " \o line.text
                     ELSE mod
         IN  IF line.kind = "lastmod"
             THEN ModifiedLoop(contents, i + 1, "Last modified: " \o line.text, TRUE)
             ELSE ModifiedLoop(contents, i + 1, mod1, FALSE)

get_modified_str(contents) == ModifiedLoop(contents, 1, "", FALSE)

----------------------------------------------------------------------------
(* get_table_sql *)

\* the column clause: lower-cased name, and text in place of timestamp
get_row_sql(r) ==
    [name |-> Lower(r.name),
     type |-> IF r.postgres_type = "timestamp" THEN "text" ELSE r.postgres_type]

\* df['postgres_type'] = df.apply(code_row, axis=1)
WithTypes(d) ==
    [i \in 1..Len(d) |->
        [name |-> d[i].name, postgres_type |-> code_row(d[i])]]

IsTimestamp(r) == r.postgres_type = "timestamp"

\* every column reported as a datetime field
datetime_cols_all(d) == [i \in 1..Len(d) |-> Lower(d[i].name)]

\* datetime_cols: the lower-cased names of the timestamp columns, in order
datetime_cols(d) ==
    LET sel == SelectSeq(WithTypes(d), IsTimestamp)
    IN  [i \in 1..Len(sel) |-> Lower(sel[i].name)]

get_table_sql(d) ==
    [sql       |-> [i \in 1..Len(d) |-> get_row_sql(WithTypes(d)[i])],
     datetimes |-> datetime_cols(d)]

----------------------------------------------------------------------------
(* The destination store *)

\* obj_description of a table without a comment; Python's None
NullComment == "<None>"

\* PostgreSQL folds an unquoted identifier to lower case
PgIdent(n) == Lower(n)

\* the comment the store holds after COMMENT ON TABLE ... IS '<c>'
\* (an empty comment is kept as empty or as no comment)
StoredComments(c) == IF c = "" THEN {"", NullComment} ELSE {c}

\* the columns after ALTER TABLE ... ALTER <var> TYPE timestamp
AlterToTimestamp(cols, var) ==
    [i \in 1..Len(cols) |->
        IF cols[i].name = PgIdent(var)
        THEN [name |-> cols[i].name, type |-> "timestamp"]
        ELSE cols[i]]

HasColumn(cols, var) == \E i \in 1..Len(cols) : cols[i].name = PgIdent(var)

SchemaRole == "schema"
AccessRole == "schema_access"

----------------------------------------------------------------------------
(* wrds_update: the freshness decision *)

\* what get_table_comment returns
get_table_comment(exists, c) == IF exists THEN c ELSE ""

\* the branch taken with the equality test dropped
FreshnessBranch_always_sync(m, c, frc, fp) ==
    IF m = "" /\ ~frc THEN "flaked" ELSE "sync"

\* the branch of wrds_update's if / elif / else
FreshnessBranch(m, c, frc, fp) ==
    IF m = c /\ ~frc /\ ~fp THEN "uptodate"
    ELSE IF m = "" /\ ~frc THEN "flaked"
    ELSE "sync"

----------------------------------------------------------------------------
(* Stages of a call *)

StepOrder ==
    << "DECIDE_FRESHNESS", "DESCRIBE_SCHEMA", "BUILD_PLAN", "DROP_EXISTING",
       "CREATE_TABLE", "EXPORT_AND_LOAD", "APPLY_FIXUPS", "STAMP_FRESHNESS",
       "ENSURE_OWNERSHIP_AND_GRANTS", "DONE" >>

\* the stage a statement of wrds_update / wrds_to_pg belongs to
StageOf(p) ==
    CASE p \in {"get_table_comment", "get_modified_str", "synth", "decide"}
            -> "DECIDE_FRESHNESS"
      [] p = "sas_to_pandas" -> "DESCRIBE_SCHEMA"
      [] p = "build"         -> "BUILD_PLAN"
      [] p = "drop"          -> "DROP_EXISTING"
      [] p = "create"        -> "CREATE_TABLE"
      [] p \in {"get_wrds_process", "wrds_process_to_pg", "copy"}
            -> "EXPORT_AND_LOAD"
      [] p = "fixups"        -> "APPLY_FIXUPS"
      [] p = "set_table_comment" -> "STAMP_FRESHNESS"
      [] p \in {"owner_role", "alter_owner", "access_role", "grant"}
            -> "ENSURE_OWNERSHIP_AND_GRANTS"

\* the stages entered once the statement at p runs
Entered(p) ==
    IF trace # <<>> /\ trace[Len(trace)] = StageOf(p)
    THEN trace
    ELSE Append(trace, StageOf(p))

Final == {"uptodate", "flaked", "done", "raised"}

NoPlan == [sql |-> <<>>, datetimes |-> <<>>]

----------------------------------------------------------------------------
(* Initial state: no destination table, no roles, no call running *)

MainInit ==
    /\ tableExists = FALSE
    /\ tableCols = <<>>
    /\ tableRows = <<>>
    /\ tableComment = NullComment
    /\ tableOwner = FALSE
    /\ tableGrant = FALSE
    /\ roles = {}
    /\ wrds_id = FALSE
    /\ fpath = FALSE
    /\ force = FALSE
    /\ pc = "idle"
    /\ comment = ""
    /\ modified = ""
    /\ df = <<>>
    /\ make_table_data = NoPlan
    /\ stream = <<>>
    /\ txRows = <<>>
    /\ sent = 0
    /\ fixIdx = 1
    /\ failedAt = ""
    /\ openChannels = {}
    /\ openConns = {}
    /\ trace = <<>>
    /\ last = [synced |-> FALSE, modified |-> ""]

Init ==
    /\ MainInit
    /\ remoteCols \in ColLists
    /\ row = Col(<<>>, <<>>, 0, 0, 1)
    /\ postgres_type = "none"
    /\ ret_line = 0

----------------------------------------------------------------------------
(* wrds_update *)

\* a call of wrds_update(table_name, schema, engine, wrds_id, fpath, force)
Start ==
    /\ pc \in Final \cup {"idle"}
    /\ \E w \in BOOLEAN, f \in BOOLEAN, frc \in BOOLEAN :
        /\ wrds_id' = w
        /\ fpath' = f
        /\ force' = frc
        /\ pc' = IF w THEN "get_table_comment" ELSE "synth"
    /\ last' = IF pc = "idle" THEN last
               ELSE IF pc = "done" /\ wrds_id /\ ~fpath /\ ~force
               THEN [synced |-> TRUE, modified |-> modified]
               ELSE [synced |-> FALSE, modified |-> ""]
    /\ comment' = ""
    /\ modified' = ""
    /\ df' = <<>>
    /\ make_table_data' = NoPlan
    /\ txRows' = <<>>
    /\ sent' = 0
    /\ fixIdx' = 1
    /\ failedAt' = ""
    /\ openChannels' = {}
    /\ openConns' = {}
    /\ trace' = <<>>
    /\ UNCHANGED <<storeVars, remoteCols, stream, typeVars>>

\* comment = get_table_comment(...): engine.connect() is handed to has_table
\* and never closed
GetTableComment ==
    /\ pc = "get_table_comment"
    /\ openConns' = openConns \cup {"has_table"}
    /\ comment' = get_table_comment(tableExists, tableComment)
    /\ trace' = Entered(pc)
    /\ pc' = "get_modified_str"
    /\ UNCHANGED <<storeVars, remoteCols, argVars, modified, df, make_table_data,
                   stream, txRows, sent, fixIdx, failedAt, openChannels, last, typeVars>>

\* modified = get_modified_str(...): the stream of get_process is read and
\* never closed
GetModifiedStr ==
    /\ pc = "get_modified_str"
    /\ \E contents \in RemoteOutputs : modified' = get_modified_str(contents)
    /\ openChannels' = openChannels \cup {"proc_contents"}
    /\ trace' = Entered(pc)
    /\ pc' = "decide"
    /\ UNCHANGED <<storeVars, remoteCols, argVars, comment, df, make_table_data,
                   stream, txRows, sent, fixIdx, failedAt, openConns, last, typeVars>>

\* no wrds_id: comment = 'Updated on ' + now; modified = comment
SynthMarker ==
    /\ pc = "synth"
    /\ comment' = "Updated on " \o "now"
    /\ modified' = comment'
    /\ trace' = Entered(pc)
    /\ pc' = "decide"
    /\ UNCHANGED <<storeVars, remoteCols, argVars, df, make_table_data, stream,
                   txRows, sent, fixIdx, failedAt, openChannels, openConns, last, typeVars>>

\* the if / elif / else: return False twice, or go on to wrds_to_pg
Decide ==
    /\ pc = "decide"
    /\ LET b == FreshnessBranch(modified, comment, force, fpath)
       IN  pc' = IF b = "sync" THEN "sas_to_pandas" ELSE b
    /\ trace' = Entered(pc)
    /\ UNCHANGED <<storeVars, remoteCols, argVars, comment, modified, df,
                   make_table_data, stream, txRows, sent, fixIdx, failedAt, openChannels,
                   openConns, last, typeVars>>

----------------------------------------------------------------------------
(* wrds_to_pg *)

\* df = sas_to_pandas(...): get_process, read_csv, p.close()
\* (get_process returns None when neither wrds_id nor fpath is given)
DescribeSchema ==
    /\ pc = "sas_to_pandas"
    /\ wrds_id \/ fpath
    /\ df' = remoteCols
    /\ trace' = Entered(pc)
    /\ pc' = "build"
    /\ UNCHANGED <<storeVars, remoteCols, argVars, comment, modified,
                   make_table_data, stream, txRows, sent, fixIdx, failedAt, openChannels,
                   openConns, last, typeVars>>

\* the rest of get_table_sql: postgres_type, make_table_sql, datetime_cols
BuildPlan ==
    /\ pc = "build"
    /\ make_table_data' = get_table_sql(df)
    /\ trace' = Entered(pc)
    /\ pc' = "drop"
    /\ UNCHANGED <<storeVars, remoteCols, argVars, comment, modified, df, stream,
                   txRows, sent, fixIdx, failedAt, openChannels, openConns, last, typeVars>>

\* DROP TABLE IF EXISTS ... CASCADE: the table goes with its rows, comment,
\* owner and grants
DropExisting ==
    /\ pc = "drop"
    /\ tableExists' = FALSE
    /\ tableCols' = <<>>
    /\ tableRows' = <<>>
    /\ tableComment' = NullComment
    /\ tableOwner' = FALSE
    /\ tableGrant' = FALSE
    /\ trace' = Entered(pc)
    /\ pc' = "create"
    /\ UNCHANGED <<roles, remoteCols, argVars, comment, modified, df,
                   make_table_data, stream, txRows, sent, fixIdx, failedAt, openChannels,
                   openConns, last, typeVars>>

\* engine.execute(make_table_data["sql"])
CreateTable ==
    /\ pc = "create"
    /\ ~tableExists
    /\ tableExists' = TRUE
    /\ tableCols' = [i \in 1..Len(make_table_data.sql) |->
                        [name |-> PgIdent(make_table_data.sql[i].name),
                         type |-> make_table_data.sql[i].type]]
    /\ trace' = Entered(pc)
    /\ pc' = "get_wrds_process"
    /\ UNCHANGED <<tableRows, tableComment, tableOwner, tableGrant, roles,
                   remoteCols, argVars, comment, modified, df, make_table_data,
                   stream, txRows, sent, fixIdx, failedAt, openChannels, openConns, last,
                   typeVars>>

\* p = get_wrds_process(...): the export stream is opened
Export ==
    /\ pc = "get_wrds_process"
    /\ stream' \in Streams
    /\ openChannels' = openChannels \cup {"export"}
    /\ trace' = Entered(pc)
    /\ pc' = "wrds_process_to_pg"
    /\ UNCHANGED <<storeVars, remoteCols, argVars, comment, modified, df,
                   make_table_data, txRows, sent, fixIdx, failedAt, openConns, last,
                   typeVars>>

----------------------------------------------------------------------------
(* wrds_process_to_pg *)

\* the header line is read, engine.raw_connection() opens a transaction,
\* SET DateStyle runs in it
LoadBegin ==
    /\ pc = "wrds_process_to_pg"
    /\ openConns' = openConns \cup {"copy"}
    /\ txRows' = <<>>
    /\ sent' = 0
    /\ trace' = Entered(pc)
    /\ pc' = "copy"
    /\ UNCHANGED <<storeVars, remoteCols, argVars, comment, modified, df,
                   make_table_data, stream, fixIdx, failedAt, openChannels, last,
                   typeVars>>

\* every row committed as it is copied
CopyRow_autocommit ==
    /\ pc = "copy"
    /\ Len(txRows) < Len(stream)
    /\ txRows' = Append(txRows, stream[Len(txRows) + 1])
    /\ sent' = sent + 1
    /\ tableRows' = Append(tableRows, stream[Len(txRows) + 1])
    /\ trace' = Entered(pc)
    /\ UNCHANGED <<tableExists, tableCols, tableComment, tableOwner, tableGrant,
                   roles, remoteCols, argVars, pc, comment, modified, df,
                   make_table_data, stream, fixIdx, failedAt, openChannels,
                   openConns, last, typeVars>>

\* cursor.copy_expert(copy_cmd, p): one more row of the stream is copied
\* inside the transaction
CopyRow ==
    /\ pc = "copy"
    /\ Len(txRows) < Len(stream)
    /\ txRows' = Append(txRows, stream[Len(txRows) + 1])
    /\ sent' = sent + 1
    /\ trace' = Entered(pc)
    /\ UNCHANGED <<storeVars, remoteCols, argVars, pc, comment, modified, df,
                   make_table_data, stream, fixIdx, failedAt, openChannels,
                   openConns, last, typeVars>>

\* the failure swallowed: the call goes on after the finally block
CopyFail_swallowed ==
    /\ pc = "copy"
    /\ txRows' = <<>>
    /\ UNCHANGED sent
    /\ openConns' = openConns \ {"copy"}
    /\ openChannels' = openChannels \ {"export"}
    /\ failedAt' = StageOf(pc)
    /\ trace' = Entered(pc)
    /\ fixIdx' = 1
    /\ pc' = "fixups"
    /\ UNCHANGED <<storeVars, remoteCols, argVars, comment, modified, df,
                   make_table_data, stream, last, typeVars>>

\* SET DateStyle, copy_expert, cursor.close or commit raises: the finally
\* block closes the connection, which rolls the transaction back, and closes p
CopyFail ==
    /\ pc = "copy"
    /\ txRows' = <<>>
    /\ UNCHANGED sent
    /\ openConns' = openConns \ {"copy"}
    /\ openChannels' = openChannels \ {"export"}
    /\ failedAt' = StageOf(pc)
    /\ trace' = Entered(pc)
    /\ pc' = "raised"
    /\ UNCHANGED <<storeVars, remoteCols, argVars, comment, modified, df,
                   make_table_data, stream, fixIdx, last, typeVars>>

\* the stream is exhausted: cursor.close(), connection.commit(), then the
\* finally block closes the connection and p
CopyCommit ==
    /\ pc = "copy"
    /\ Len(txRows) = Len(stream)
    /\ tableRows' = tableRows \o txRows
    /\ txRows' = <<>>
    /\ UNCHANGED sent
    /\ openConns' = openConns \ {"copy"}
    /\ openChannels' = openChannels \ {"export"}
    /\ fixIdx' = 1
    /\ trace' = Entered(pc)
    /\ pc' = "fixups"
    /\ UNCHANGED <<tableExists, tableCols, tableComment, tableOwner, tableGrant,
                   roles, remoteCols, argVars, comment, modified, df,
                   make_table_data, stream, failedAt, last, typeVars>>

----------------------------------------------------------------------------
(* wrds_to_pg: the loop over make_table_data["datetimes"] *)

\* one pass of the loop: ALTER TABLE ... ALTER var TYPE timestamp
ApplyFixup ==
    /\ pc = "fixups"
    /\ fixIdx <= Len(make_table_data.datetimes)
    /\ HasColumn(tableCols, make_table_data.datetimes[fixIdx])
    /\ tableCols' = AlterToTimestamp(tableCols, make_table_data.datetimes[fixIdx])
    /\ fixIdx' = fixIdx + 1
    /\ trace' = Entered(pc)
    /\ UNCHANGED <<tableExists, tableRows, tableComment, tableOwner, tableGrant,
                   roles, remoteCols, argVars, pc, comment, modified, df,
                   make_table_data, stream, txRows, sent, failedAt, openChannels,
                   openConns, last, typeVars>>

\* the loop ends and wrds_to_pg returns
FixupsDone ==
    /\ pc = "fixups"
    /\ fixIdx > Len(make_table_data.datetimes)
    /\ trace' = Entered(pc)
    /\ pc' = "set_table_comment"
    /\ UNCHANGED <<storeVars, remoteCols, argVars, comment, modified, df,
                   make_table_data, stream, txRows, sent, fixIdx, failedAt, openChannels,
                   openConns, last, typeVars>>

----------------------------------------------------------------------------
(* wrds_update, after wrds_to_pg *)

\* set_table_comment: COMMENT ON TABLE ... IS modified, committed; the
\* connection of engine.connect() is never closed
SetTableComment ==
    /\ pc = "set_table_comment"
    /\ tableExists
    /\ tableComment' \in StoredComments(modified)
    /\ openConns' = openConns \cup {"comment"}
    /\ trace' = Entered(pc)
    /\ pc' = "owner_role"
    /\ UNCHANGED <<tableExists, tableCols, tableRows, tableOwner, tableGrant,
                   roles, remoteCols, argVars, comment, modified, df,
                   make_table_data, stream, txRows, sent, fixIdx, failedAt, openChannels,
                   last, typeVars>>

\* set_table_comment: the statement or the commit raises: rollback, raise
SetTableCommentFail ==
    /\ pc = "set_table_comment"
    /\ openConns' = openConns \cup {"comment"}
    /\ failedAt' = StageOf(pc)
    /\ trace' = Entered(pc)
    /\ pc' = "raised"
    /\ UNCHANGED <<storeVars, remoteCols, argVars, comment, modified, df,
                   make_table_data, stream, txRows, sent, fixIdx, openChannels, last,
                   typeVars>>

\* role_exists(engine, role)
role_exists(r) == r \in roles

\* if not role_exists(engine, schema): create_role(engine, schema)
EnsureOwnerRole ==
    /\ pc = "owner_role"
    /\ roles' = IF ~role_exists(SchemaRole) THEN roles \cup {SchemaRole} ELSE roles
    /\ trace' = Entered(pc)
    /\ pc' = "alter_owner"
    /\ UNCHANGED <<tableExists, tableCols, tableRows, tableComment, tableOwner,
                   tableGrant, remoteCols, argVars, comment, modified, df,
                   make_table_data, stream, txRows, sent, fixIdx, failedAt, openChannels,
                   openConns, last, typeVars>>

\* ALTER TABLE ... OWNER TO <schema>
AlterOwner ==
    /\ pc = "alter_owner"
    /\ tableExists /\ role_exists(SchemaRole)
    /\ tableOwner' = TRUE
    /\ trace' = Entered(pc)
    /\ pc' = "access_role"
    /\ UNCHANGED <<tableExists, tableCols, tableRows, tableComment, tableGrant,
                   roles, remoteCols, argVars, comment, modified, df,
                   make_table_data, stream, txRows, sent, fixIdx, failedAt, openChannels,
                   openConns, last, typeVars>>

\* if not role_exists(engine, "<schema>_access"): create_role(...)
EnsureAccessRole ==
    /\ pc = "access_role"
    /\ roles' = IF ~role_exists(AccessRole) THEN roles \cup {AccessRole} ELSE roles
    /\ trace' = Entered(pc)
    /\ pc' = "grant"
    /\ UNCHANGED <<tableExists, tableCols, tableRows, tableComment, tableOwner,
                   tableGrant, remoteCols, argVars, comment, modified, df,
                   make_table_data, stream, txRows, sent, fixIdx, failedAt, openChannels,
                   openConns, last, typeVars>>

\* GRANT SELECT ON ... TO <schema>_access; return True
GrantSelect ==
    /\ pc = "grant"
    /\ tableExists /\ role_exists(AccessRole)
    /\ tableGrant' = TRUE
    /\ trace' = Append(Entered(pc), "DONE")
    /\ pc' = "done"
    /\ UNCHANGED <<tableExists, tableCols, tableRows, tableComment, tableOwner,
                   roles, remoteCols, argVars, comment, modified, df,
                   make_table_data, stream, txRows, sent, fixIdx, failedAt, openChannels,
                   openConns, last, typeVars>>

----------------------------------------------------------------------------
(* Exceptions: wrds_update and wrds_to_pg catch nothing *)

\* the statements whose call of the engine or of the remote side can raise
\* with nothing to undo
RaisingAt ==
    {"get_table_comment", "get_modified_str", "sas_to_pandas", "build", "drop",
     "create", "get_wrds_process", "wrds_process_to_pg", "fixups", "owner_role",
     "alter_owner", "access_role", "grant"}

\* the connection a raising statement may have opened before it raised
ConnOpenedAt(p) == IF p = "get_table_comment" THEN {"has_table"} ELSE {}

\* the channel a raising statement may have opened before it raised
ChannelOpenedAt(p) ==
    CASE p = "get_modified_str" -> {"proc_contents"}
      [] p = "sas_to_pandas" -> IF wrds_id \/ fpath THEN {"describe"} ELSE {}
      [] p = "get_wrds_process" -> {"export"}
      [] OTHER -> {}

\* the exception logged, the call going on with the same statement
Raise_logged ==
    /\ pc \in RaisingAt
    /\ pc = "fixups" => fixIdx <= Len(make_table_data.datetimes)
    /\ failedAt' = StageOf(pc)
    /\ trace' = Entered(pc)
    /\ UNCHANGED <<storeVars, remoteCols, argVars, pc, comment, modified, df,
                   make_table_data, stream, txRows, sent, fixIdx, openChannels,
                   openConns, last, typeVars>>

\* a statement raises and the exception leaves wrds_update; what the statement
\* had opened stays open
Raise ==
    /\ pc \in RaisingAt
    /\ pc = "fixups" => fixIdx <= Len(make_table_data.datetimes)
    /\ \E c \in SUBSET ConnOpenedAt(pc), ch \in SUBSET ChannelOpenedAt(pc) :
        /\ openConns' = openConns \cup c
        /\ openChannels' = openChannels \cup ch
    /\ failedAt' = StageOf(pc)
    /\ trace' = Entered(pc)
    /\ pc' = "raised"
    /\ UNCHANGED <<storeVars, remoteCols, argVars, comment, modified, df,
                   make_table_data, stream, txRows, sent, fixIdx, last, typeVars>>

----------------------------------------------------------------------------
(* The specification of the synchronisation *)

Next ==
    \/ Start
    \/ GetTableComment
    \/ GetModifiedStr
    \/ SynthMarker
    \/ Decide
    \/ DescribeSchema
    \/ BuildPlan
    \/ DropExisting
    \/ CreateTable
    \/ Export
    \/ LoadBegin
    \/ CopyRow
    \/ CopyFail
    \/ CopyCommit
    \/ ApplyFixup
    \/ FixupsDone
    \/ SetTableComment
    \/ SetTableCommentFail
    \/ EnsureOwnerRole
    \/ AlterOwner
    \/ EnsureAccessRole
    \/ GrantSelect
    \/ Raise

Spec == Init /\ [][Next]_vars

----------------------------------------------------------------------------
(* code_row on its own: every PROC CONTENTS row of the sample formats *)

Formats ==
    { <<>>,
      <<"D","A","T","E","T","I","M","E","2","0",".">>,
      <<"d","a","t","e","t","i","m","e">>,
      <<"T","I","M","E","8",".">>,
      <<"T","O","D">>,
      <<"t","o","d">>,
      <<"T","i","m","e","5",".">>,
      <<"D","A","T","E","9",".">>,
      <<"Y","Y","M","M","D","D","1","0",".">>,
      <<"M","M","D","D","Y","Y","1","0",".">>,
      <<"B","E","S","T">>,
      <<"B","E","S","T","1","2",".">>,
      <<"b","e","s","t">>,
      <<"F","8",".","2">>,
      <<"$","C","H","A","R","2","0",".">> }

Rows ==
    { Col(<<"X">>, f, d, l, t) :
        f \in Formats, d \in {0, 2}, l \in {0, 8}, t \in {1, 2} }

TypeInit ==
    /\ MainInit
    /\ row \in Rows
    /\ remoteCols = <<row>>
    /\ postgres_type = "none"
    /\ ret_line = 0

\* df.apply(code_row, axis=1), one row
ApplyCodeRow ==
    /\ postgres_type = "none"
    /\ postgres_type' = code_row(row)
    /\ ret_line' = code_row_line(row)
    /\ UNCHANGED <<storeVars, remoteCols, argVars, pc, comment, modified, df,
                   make_table_data, stream, txRows, sent, fixIdx, failedAt, openChannels,
                   openConns, trace, last, row>>

\* the next row of the data frame
NextRow ==
    /\ postgres_type # "none"
    /\ row' \in Rows
    /\ postgres_type' = "none"
    /\ ret_line' = 0
    /\ UNCHANGED <<storeVars, remoteCols, argVars, pc, comment, modified, df,
                   make_table_data, stream, txRows, sent, fixIdx, failedAt, openChannels,
                   openConns, trace, last>>

TypeNext == ApplyCodeRow \/ NextRow

TypeSpec == TypeInit /\ [][TypeNext]_vars

----------------------------------------------------------------------------
(* Properties *)

\* the call is a remote, non-forced one
RemoteNonForced == wrds_id /\ ~fpath /\ ~force

\* some stage of the running call
InTrace(stage) == \E i \in 1..Len(trace) : trace[i] = stage

\* the signals get_modified_str can return
Signals == { get_modified_str(c) : c \in RemoteOutputs }

\* C1: when the previous call was a remote, non-forced call that synced and
\* returned True, a remote, non-forced call that gets the same non-empty
\* signal stops at the freshness check ("already up to date", return False):
\* it enters no stage after DECIDE_FRESHNESS, so the drop, create, copy and
\* fix-up statements ran once over the two calls.
C1_SecondRunShortCircuits ==
    ( /\ last.synced
      /\ RemoteNonForced
      /\ modified # ""
      /\ modified = last.modified
      /\ pc # "decide" )
    => ( /\ pc = "uptodate"
         /\ trace = <<"DECIDE_FRESHNESS">> )

C1_Witness ==
    /\ last.synced
    /\ RemoteNonForced
    /\ modified # ""
    /\ modified = last.modified
    /\ pc = "uptodate"
    /\ tableExists
    /\ tableComment = modified

\* FreshnessDecider.shouldSync of the specification
shouldSync(current, remoteSignal, frc, isLocalImport) ==
    IF isLocalImport THEN TRUE
    ELSE frc \/ (remoteSignal # "" /\ remoteSignal # current)

\* C2: once wrds_update has decided, it syncs exactly when shouldSync says so,
\* a call with fpath being a local-file import.
C2_DecisionAgrees ==
    /\ pc \in {"uptodate", "flaked"} => ~shouldSync(comment, modified, force, fpath)
    /\ Len(trace) >= 2 => shouldSync(comment, modified, force, fpath)

\* C3: a remote, non-forced call whose signal is empty ends "remote
\* unavailable" and never "already up to date".
C3_EmptySignalIsUnavailable ==
    ( /\ RemoteNonForced
      /\ modified = ""
      /\ pc \in {"uptodate", "flaked"} )
    => pc = "flaked"

\* C4: the stages a call has entered are always an initial part of the fixed
\* order; once a stage has failed the call has raised and no later stage was
\* entered; the table is not dropped when the description fails, and no marker
\* is written when the load or a fix-up fails.
C4_LinearOrder ==
    /\ Len(trace) <= Len(StepOrder)
    /\ trace = SubSeq(StepOrder, 1, Len(trace))
    /\ failedAt # "" =>
        /\ pc = "raised"
        /\ trace # <<>>
        /\ trace[Len(trace)] = failedAt
    /\ failedAt \in {"DESCRIBE_SCHEMA", "BUILD_PLAN"} => ~InTrace("DROP_EXISTING")
    /\ failedAt \in {"EXPORT_AND_LOAD", "APPLY_FIXUPS"} =>
        /\ ~InTrace("STAMP_FRESHNESS")
        /\ tableComment = NullComment

C4_Witness ==
    /\ pc = "raised"
    /\ failedAt = "APPLY_FIXUPS"
    /\ tableRows # <<>>
    /\ tableComment = NullComment

\* C5: the table holds no row or every row of the exported stream, never a
\* part of it; while the copy runs, and after it failed, the table is as empty
\* as CREATE TABLE left it.
C5_AllOrNothing ==
    /\ tableRows = <<>> \/ tableRows = stream
    /\ pc = "copy" => tableRows = <<>>
    /\ failedAt = "EXPORT_AND_LOAD" => tableRows = <<>>

C5_Witness ==
    /\ pc = "raised"
    /\ failedAt = "EXPORT_AND_LOAD"
    /\ sent >= 1
    /\ sent < Len(stream)
    /\ tableRows = <<>>

\* C6: when a call has returned or raised, no channel and no connection it
\* opened is still open.
C6_AllClosed ==
    pc \in Final => (openChannels = {} /\ openConns = {})

\* the rule list of the specification, first match wins
HasFormat(r, pats) == \E q \in pats : SearchI(q, r.format)

TypeMapperDecide(r) ==
    CASE r.type = 2 -> "text"
      [] r.type # 2 /\ HasFormat(r, {F_DATETIME}) -> "timestamp"
      [] OTHER ->
        IF r.format \in {F_TIME8, F_TOD} \/ HasFormat(r, {F_TIME}) THEN "time"
        ELSE IF HasFormat(r, {F_DATE, F_YYMMDD, F_MMDDYY}) THEN "date"
        ELSE IF r.format = F_BEST THEN "float8"
        ELSE IF r.formatd # 0 THEN "float8"
        ELSE IF r.formatl # 0 THEN "int8"
        ELSE "float8"

\* C7: code_row returns a destination type for every row, the one the rule
\* list gives, and returns at its last line only for a row without a format.
C7_CodeRowIsRuleList ==
    postgres_type # "none" =>
        /\ postgres_type \in DestinationTypes
        /\ postgres_type = TypeMapperDecide(row)
        /\ ret_line = 81 => IsNull(row.format)

C7_Witness ==
    /\ postgres_type = "timestamp"
    /\ SearchI(F_TIME, row.format)
    /\ SearchI(F_DATE, row.format)
    /\ row.formatl # 0

\* the columns of the fix-up list, from the description
RECURSIVE TimestampNames(_)
TimestampNames(d) ==
    IF d = <<>> THEN <<>>
    ELSE IF code_row(Head(d)) = "timestamp"
         THEN <<Lower(Head(d).name)>> \o TimestampNames(Tail(d))
         ELSE TimestampNames(Tail(d))

\* the columns the table has when the first k fix-ups have run
ColsAfterFixups(k) ==
    [i \in 1..Len(remoteCols) |->
        [name |-> Lower(remoteCols[i].name),
         type |-> IF code_row(remoteCols[i]) = "timestamp"
                     /\ \A j \in 1..k : TimestampNames(remoteCols)[j] # Lower(remoteCols[i].name)
                  THEN "text"
                  ELSE code_row(remoteCols[i])]]

\* C8: the plan's fix-up list is the lower-cased names of the timestamp
\* columns in order; the table is created with the decided types, text in
\* place of timestamp; the fix-ups run after the copy has committed, one listed
\* column at a time; after them every column has its decided type.
C8_ColumnTypes ==
    /\ make_table_data # NoPlan =>
        make_table_data.datetimes = TimestampNames(remoteCols)
    /\ pc \in {"get_wrds_process", "wrds_process_to_pg", "copy"} =>
        tableCols = ColsAfterFixups(0)
    /\ pc = "fixups" =>
        /\ tableRows = stream
        /\ tableCols = ColsAfterFixups(fixIdx - 1)
    /\ pc \in {"set_table_comment", "owner_role", "alter_owner", "access_role",
               "grant", "done"} =>
        tableCols = [i \in 1..Len(remoteCols) |->
                        [name |-> Lower(remoteCols[i].name),
                         type |-> code_row(remoteCols[i])]]

C8_Witness ==
    /\ pc = "done"
    /\ Len(tableRows) = 2
    /\ \E i, j \in 1..Len(tableCols) :
        /\ tableCols[i].type = "timestamp"
        /\ tableCols[j].type = "int8"
        /\ i < j

\* C9: a table whose marker equals a signal a call can get holds every row of
\* the export it was loaded from and has every fix-up applied.
C9_MarkerMeansComplete ==
    \A c \in RemoteOutputs :
        (tableExists /\ get_table_comment(tableExists, tableComment) = get_modified_str(c))
        => /\ tableRows = stream
           /\ tableCols = [i \in 1..Len(remoteCols) |->
                            [name |-> Lower(remoteCols[i].name),
                             type |-> code_row(remoteCols[i])]]

C9_Witness ==
    /\ pc = "raised"
    /\ failedAt \in {"EXPORT_AND_LOAD", "APPLY_FIXUPS"}
    /\ last.synced
    /\ tableExists
    /\ tableComment = NullComment
    /\ stream # <<>>

\* C10: a remote, non-forced call that ends "already up to date" over an
\* existing table finds the table owned by the schema role and readable by the
\* access role.
C10_UpToDateMeansOwned ==
    (pc = "uptodate" /\ RemoteNonForced /\ tableExists)
    => (tableOwner /\ tableGrant)

====
